---- MODULE Spec2Model ----
(***************************************************************************)
(* offlog / ulog: a logging off-loader.                                    *)
(*                                                                         *)
(* Two state machines are modelled from the sources:                       *)
(*   - the client endpoint ProxyFile with its _ByteQueue send queue        *)
(*     (src/ulog/client.py), talking over a non-blocking stream socket to  *)
(*     a peer that may read, answer, half-close or close at any time       *)
(*     (specification ClientSpec);                                         *)
(*   - the server event loop with the FileHandler registry, the timeout    *)
(*     tasks and the shutdown sequence (src/ulog/server.py)                *)
(*     (specification Spec).                                               *)
(*                                                                         *)
(* Every system call (send, recv, poll, shutdown) is one atomic step of    *)
(* the client; every handler of the server's run loop is one atomic step   *)
(* of the server.                                                          *)
(***************************************************************************)
EXTENDS Naturals, Integers, Sequences, FiniteSets, TLC

\* ------------------------------------------------------------------ bounds
\* Number of ProxyFile.write calls made by the application.
MaxWrites == 2
\* Largest number of bytes handed to one write call.
MaxLen == 2
\* Capacity in bytes of the kernel send buffer of the client's socket.
SockCap == 1
\* Number of responses the peer may put on the stream.
MaxPeerSends == 2

\* ------------------------------------------------------- program constants
\* client.py:10 BUFSIZE = 4096, scaled down: the chunk size of _ByteQueue and
\* the largest recv.  Every chunking case (partial first and last chunks,
\* full interior chunks, a message split across recvs) occurs at this size.
BUFSIZE == 2

\* The bytes of the server's responses are modelled one token per byte.
NUL == "NUL"
FILE_OK == <<"O", "K">>
GOODBYE == <<"B", "Y", "E">>

\* ----------------------------------------------------------------- helpers
Min(a, b) == IF a < b THEN a ELSE b

Take(s, n) == SubSeq(s, 1, Min(n, Len(s)))

Drop(s, n) == SubSeq(s, n + 1, Len(s))

RECURSIVE Flat(_)
Flat(q) == IF q = <<>> THEN <<>> ELSE Head(q) \o Flat(Tail(q))

\* The bytes handed to write() are numbered in call order: the k-th byte ever
\* passed to write is the integer k.
Stream(from, n) == [i \in 1..n |-> from + i]

\* --------------------------------------------------------------- variables
VARIABLES
    \* ProxyFile and its call position
    pc,          \* where the client is: see the actions
    op,          \* the public call in progress: "init", "write" or "close"
    exc,         \* the exception the last call raised, "none" if it returned
    sock,        \* "open" or "closed" (fileno() == -1)
    shutWr,      \* the client has half-closed the socket for writing
    data,        \* write's local `data`: the bytes not yet sent or queued
    sendqueue,   \* _ByteQueue.q: a sequence of chunks
    recv_buf,    \* ProxyFile._recv_buf
    response,    \* the last message _recv_msg returned
    written,     \* number of bytes handed to write so far
    nwrites,     \* number of write calls so far
    closeSent,   \* history: queued bytes the running close() got accepted
    ctor,        \* history: the constructor's inputs, [conn, hasNul]
    \* the stream socket and the peer
    wire,        \* every byte the socket accepted from the client, in order
    inflight,    \* how many of them the peer has not read yet
    rbuf,        \* bytes the peer sent that the client has not read yet
    peer,        \* "open", "rd_shut" (half-closed for reading) or "closed"
    peerReset,   \* the peer closed with unread data: ECONNRESET is pending
    npeer,       \* number of responses the peer has sent
    \* the server (src/ulog/server.py)
    srv,             \* run(): "running", "exited" (returned) or "crashed" (raised)
    srv_exc,         \* the exception run() raised, "none" otherwise
    control_open,    \* the listening control socket is open
    data_open,       \* the data socket is open
    client_ids,      \* Server.client_ids: socket fd -> client id
    client_socks,    \* Server.client_socks: socket fd -> "open" / "closed"
    poller,          \* fds registered with Server.poller
    next_client_id,  \* Server.next_client_id
    instances,       \* FileHandler.instances: filepath -> FileHandler
    open_files,      \* the process's open file descriptors: fd -> filepath
    fs,              \* the files that exist: filepath -> records appended
    tasks,           \* Server.tasks: TaskQueue, soonest due last
    timeout_tasks,   \* Server.timeout_tasks: <<client id, filepath>> -> Task
    now,             \* time.monotonic(), in seconds
    dataq,           \* datagrams waiting in the data socket
    selfpipe,        \* bytes waiting in the self-pipe
    ndgrams,         \* number of datagrams sent so far
    drained,         \* history: datagrams shutdown() took from the data socket
    \* a _ByteQueue on its own, driven through its public methods
    bq,              \* _ByteQueue.q: a sequence of chunks
    bq_in,           \* history: number of bytes put() was given so far
    bq_out           \* history: sum of the n that done() was given so far

clientVars == <<pc, op, exc, sock, shutWr, data, sendqueue, recv_buf, response,
                written, nwrites, closeSent, ctor>>

netVars == <<wire, inflight, rbuf, peer, peerReset, npeer>>

fileVars == <<instances, open_files, fs, tasks, timeout_tasks>>

sessionVars == <<client_ids, client_socks, poller, next_client_id>>

runVars == <<srv, srv_exc, control_open, data_open>>

envVars == <<now, dataq, selfpipe, ndgrams, drained>>

serverVars == <<runVars, sessionVars, fileVars, envVars>>

queueVars == <<bq, bq_in, bq_out>>

vars == <<clientVars, netVars, serverVars, queueVars>>

\* -------------------------------------------------------------- _ByteQueue
ByteQueue_len(q) ==
    LET qlen == Len(q)
    IN  IF qlen = 0 THEN 0
        ELSE Len(q[1])
             + (IF qlen > 1 THEN Len(q[qlen]) ELSE 0)
             + (IF qlen > 2 THEN BUFSIZE * (qlen - 2) ELSE 0)

RECURSIVE ByteQueue_put_chunks(_, _)
ByteQueue_put_chunks(q, d) ==
    IF d = <<>> THEN q
    ELSE ByteQueue_put_chunks(Append(q, Take(d, BUFSIZE)), Drop(d, BUFSIZE))

\* A put that starts a new chunk whatever room the last one has.
ByteQueue_put_nofill(q, d) == ByteQueue_put_chunks(q, d)

ByteQueue_put(q, d) ==
    LET avail == IF ByteQueue_len(q) # 0 THEN BUFSIZE - Len(q[Len(q)]) ELSE 0
        q1 == IF avail # 0 THEN [q EXCEPT ![Len(q)] = @ \o Take(d, avail)] ELSE q
        d1 == IF avail # 0 THEN Drop(d, avail) ELSE d
    IN  ByteQueue_put_chunks(q1, d1)

ByteQueue_peek(q) == q[1]

ByteQueue_done(q, n) ==
    IF n = 0 THEN q
    ELSE LET chunk == Head(q)
         IN  IF n < Len(chunk) THEN <<Drop(chunk, n)>> \o Tail(q) ELSE Tail(q)


\* ------------------------------------------------------ the stream socket
\* Length in bytes of the handshake the constructor writes: the absolute
\* path (one byte here) and the terminating NUL.
HandshakeLen == 2

\* What one non-blocking sock.send of `len` bytes can do in the current state:
\* accept a non-empty prefix (n bytes), or fail with an errno.
sock_send(len) ==
    IF sock = "closed" THEN {[err |-> "EBADF", n |-> 0]}
    ELSE IF peer # "open" \/ shutWr
         THEN {[err |-> "EPIPE", n |-> 0]}
              \cup (IF peerReset THEN {[err |-> "ECONNRESET", n |-> 0]} ELSE {})
    ELSE IF inflight >= SockCap THEN {[err |-> "EAGAIN", n |-> 0]}
    ELSE {[err |-> "", n |-> k] : k \in 1..Min(len, SockCap - inflight)}

\* What poll + sock.recv(BUFSIZE) can do: deliver 1..BUFSIZE readable bytes,
\* report end-of-stream or a reset, or find nothing readable.
sock_recv ==
    IF rbuf # <<>>
    THEN {[kind |-> "data", n |-> k] : k \in 1..Min(Len(rbuf), BUFSIZE)}
    ELSE IF peer = "closed"
         THEN {[kind |-> (IF peerReset THEN "reset" ELSE "eof"), n |-> 0]}
    ELSE {[kind |-> "nothing", n |-> 0]}

\* bytes.partition(b'\0'): the index of the first NUL, 0 when there is none.
RECURSIVE NulIndexFrom(_, _)
NulIndexFrom(s, i) ==
    IF i > Len(s) THEN 0
    ELSE IF s[i] = NUL THEN i
    ELSE NulIndexFrom(s, i + 1)

partition(s) ==
    LET i == NulIndexFrom(s, 1)
    IN  IF i = 0 THEN [msg |-> s, null |-> FALSE, extradata |-> <<>>]
        ELSE [msg |-> Take(s, i - 1), null |-> TRUE, extradata |-> Drop(s, i)]

\* --------------------------------------------------- ProxyFile control flow
\* write() returned normally: the constructor goes on to wait for the
\* handshake response, a streaming write is over.
PcAfterWrite(o) == IF o = "init" THEN "hs_recv" ELSE "idle"

\* write(): `while data:` (client.py:183).
PcSend(o, d) == IF d # <<>> THEN "send" ELSE PcAfterWrite(o)

\* Mutant of PcCloseLoop: close() half-closes without waiting for the queue.
PcCloseLoop_nowait(q) == "shutdown"

\* close(): `while self._sendqueue:` (client.py:199), then shutdown.
PcCloseLoop(q) == IF ByteQueue_len(q) # 0 THEN "close_poll" ELSE "shutdown"

\* Mutant of PcClose: close() without its `fileno() == -1` test.
PcClose_unguarded(sk, q) == PcCloseLoop(q)

\* close(): `if self.sock.fileno() == -1: return` (client.py:193), else the
\* flush loop.
PcClose(sk, q) == IF sk = "closed" THEN "idle" ELSE PcCloseLoop(q)

\* _retry_queued() returned normally to its caller, write or close.
PcAfterRetry(o, q, d) == IF o = "close" THEN PcCloseLoop(q) ELSE PcSend(o, d)

\* _retry_queued(): `while self._sendqueue:` (client.py:161).
PcRetry(o, q, d) ==
    IF ByteQueue_len(q) # 0 THEN "retry" ELSE PcAfterRetry(o, q, d)

\* Mutant of write_on_block: the unsent data is dropped, not queued.
write_on_block_drop(q, d) == q

\* write(): `except BlockingIOError: self._sendqueue.put(data)`.
write_on_block(q, d) == ByteQueue_put(q, d)

\* An exception leaves the public call in progress.  `sk` is the state the
\* raising code left the socket in; close() closes it in its finally clause.
Raise(e, sk) ==
    /\ exc' = e
    /\ data' = <<>>
    /\ sock' = (IF op = "close" THEN "closed" ELSE sk)
    /\ pc' = (IF op = "init" THEN "failed" ELSE "idle")


\* ------------------------------------------------------ ProxyFile actions
ClientInit ==
    /\ pc = "new" /\ op = "init" /\ exc = "none"
    /\ sock = "open" /\ shutWr = FALSE
    /\ data = <<>> /\ sendqueue = <<>> /\ recv_buf = <<>> /\ response = <<>>
    /\ written = 0 /\ nwrites = 0 /\ closeSent = 0
    /\ ctor = [conn |-> "", hasNul |-> FALSE]
    /\ wire = <<>> /\ inflight = 0 /\ rbuf = <<>>
    /\ peer = "open" /\ peerReset = FALSE /\ npeer = 0

\* Mutant of open_rejects: _open without its test for an embedded NUL.
open_rejects_never(hasNul) == FALSE

\* _open(): `if b'\0' in filepath:` (client.py:132).
open_rejects(hasNul) == hasNul

\* ProxyFile.__init__: _connect(), then _open() up to its call of write().
\* `conn` is what sock.connect does, `hasNul` whether the filepath holds a NUL.
Construct(conn, hasNul) ==
    /\ pc = "new"
    /\ CASE conn = "ENOENT" ->
              \* _connect: FileNotFoundError, the socket is closed first
              /\ Raise("FileNotFoundError", "closed")
              /\ UNCHANGED written
         [] conn = "ECONNREFUSED" ->
              \* any other connect error propagates as it is
              /\ Raise("ConnectionRefusedError", sock)
              /\ UNCHANGED written
         [] conn = "ok" /\ open_rejects(hasNul) ->
              /\ Raise("ValueError", "closed")
              /\ UNCHANGED written
         [] OTHER ->
              \* self.write(os.path.abspath(filepath) + b'\0')
              /\ data' = Stream(written, HandshakeLen)
              /\ written' = written + HandshakeLen
              /\ pc' = PcRetry("init", sendqueue, data')
              /\ UNCHANGED <<exc, sock>>
    /\ UNCHANGED <<op, shutWr, sendqueue, recv_buf, response, nwrites,
                   closeSent, netVars>>
    /\ ctor' = [conn |-> conn, hasNul |-> hasNul]

\* ProxyFile.write(data), called by the application with n new bytes.
WriteCall(n) ==
    /\ pc = "idle"
    /\ nwrites < MaxWrites
    /\ op' = "write"
    /\ exc' = "none"
    /\ nwrites' = nwrites + 1
    /\ data' = Stream(written, n)
    /\ written' = written + n
    /\ pc' = PcRetry("write", sendqueue, data')
    /\ UNCHANGED <<sock, shutWr, sendqueue, recv_buf, response, closeSent,
                   netVars>>
    /\ UNCHANGED ctor

\* _retry_queued(): one `sent = self._checksend(self._sendqueue.peek())`
\* followed by `self._sendqueue.done(sent)` and the loop test.
RetrySend ==
    /\ pc = "retry"
    /\ \E r \in sock_send(Len(ByteQueue_peek(sendqueue))) :
         CASE r.err = "" ->
                /\ wire' = wire \o Take(ByteQueue_peek(sendqueue), r.n)
                /\ inflight' = inflight + r.n
                /\ sendqueue' = ByteQueue_done(sendqueue, r.n)
                /\ closeSent' = (IF op = "close" THEN closeSent + r.n ELSE closeSent)
                /\ pc' = PcRetry(op, sendqueue', data)
                /\ UNCHANGED <<exc, sock, data>>
           [] r.err = "EAGAIN" ->
                \* except BlockingIOError: pass
                /\ pc' = PcAfterRetry(op, sendqueue, data)
                /\ UNCHANGED <<exc, sock, data, sendqueue, wire, inflight, closeSent>>
           [] r.err = "EPIPE" ->
                \* _checksend: response = self._recv_msg(timeout=0)
                /\ pc' = "epipe_recv"
                /\ UNCHANGED <<exc, sock, data, sendqueue, wire, inflight, closeSent>>
           [] r.err = "ECONNRESET" ->
                /\ Raise("ConnectionResetError", "closed")
                /\ UNCHANGED <<sendqueue, wire, inflight, closeSent>>
           [] OTHER ->
                \* send on a closed socket: OSError(EBADF), caught nowhere
                /\ Raise("OSError", sock)
                /\ UNCHANGED <<sendqueue, wire, inflight, closeSent>>
    /\ UNCHANGED <<op, shutWr, recv_buf, response, written, nwrites,
                   rbuf, peer, peerReset, npeer>>
    /\ UNCHANGED ctor

\* write(): one `sent = self._checksend(data); data = data[sent:]` and the
\* loop test, or the BlockingIOError handler that queues the unsent data.
WriteSend ==
    /\ pc = "send"
    /\ \E r \in sock_send(Len(data)) :
         CASE r.err = "" ->
                /\ wire' = wire \o Take(data, r.n)
                /\ inflight' = inflight + r.n
                /\ data' = Drop(data, r.n)
                /\ pc' = PcSend(op, data')
                /\ UNCHANGED <<exc, sock, sendqueue>>
           [] r.err = "EAGAIN" ->
                /\ sendqueue' = write_on_block(sendqueue, data)
                /\ data' = <<>>
                /\ pc' = PcAfterWrite(op)
                /\ UNCHANGED <<exc, sock, wire, inflight>>
           [] r.err = "EPIPE" ->
                /\ pc' = "epipe_recv"
                /\ UNCHANGED <<exc, sock, sendqueue, data, wire, inflight>>
           [] r.err = "ECONNRESET" ->
                /\ Raise("ConnectionResetError", "closed")
                /\ UNCHANGED <<sendqueue, wire, inflight>>
           [] OTHER ->
                /\ Raise("OSError", sock)
                /\ UNCHANGED <<sendqueue, wire, inflight>>
    /\ UNCHANGED <<op, shutWr, recv_buf, response, written, nwrites, closeSent,
                   rbuf, peer, peerReset, npeer>>
    /\ UNCHANGED ctor


\* The attributes of `builtins` a response can name: exception classes, and
\* callables that are no exception class.
BuiltinExceptions == {"OSError"}

BuiltinCallables == {"print"}

\* _make_exception(response), by the class of what the caller's `raise` then
\* raises.  A response "<name>: <message>" is split at its first ": "; a
\* name that is no attribute of builtins, or a response without ": ", gives
\* ValueError.  A name of a builtin that is no exception class is called
\* with the message and `raise` of its result raises TypeError.
make_exception(resp) ==
    IF Len(resp) >= 2 /\ resp[2] = ": "
    THEN IF resp[1] \in BuiltinExceptions THEN resp[1]
         ELSE IF resp[1] \in BuiltinCallables THEN "TypeError"
         ELSE "ValueError"
    ELSE "ValueError"

\* Mutant of recv_returned: the constructor takes any response for OK.
recv_returned_lax(msg) ==
    IF pc = "hs_recv"
    THEN pc' = "idle" /\ UNCHANGED <<exc, sock, data>>
    ELSE Raise(make_exception(msg), "closed")

\* _recv_msg() returned `msg` to its caller: _checksend after a broken pipe,
\* _open waiting for the handshake response, or close waiting for GOODBYE.
recv_returned(msg) ==
    CASE pc = "epipe_recv" ->
           \* self.sock.close(); if response: raise _make_exception(...); raise
           IF msg # <<>> THEN Raise(make_exception(msg), "closed")
           ELSE Raise("BrokenPipeError", "closed")
      [] pc = "hs_recv" ->
           IF msg # FILE_OK THEN Raise(make_exception(msg), "closed")
           ELSE /\ pc' = "idle"
                /\ UNCHANGED <<exc, sock, data>>
      [] OTHER ->
           \* close(): `if response != GOODBYE: raise`, finally sock.close()
           IF msg # GOODBYE THEN Raise(make_exception(msg), "closed")
           ELSE /\ pc' = "idle"
                /\ sock' = "closed"
                /\ UNCHANGED <<exc, data>>

\* _recv_msg(timeout): one turn of `while self.poller.poll(timeout):` with
\* its recv, or the fall-through when the poll finds nothing readable.
RecvMsg ==
    /\ pc \in {"epipe_recv", "hs_recv", "bye_recv"}
    /\ \E r \in sock_recv :
         CASE r.kind = "data" ->
                LET p == partition(Take(rbuf, r.n))
                    buf == recv_buf \o p.msg
                IN  /\ rbuf' = Drop(rbuf, r.n)
                    /\ IF p.null
                       THEN /\ recv_buf' = p.extradata
                            /\ response' = buf
                            /\ recv_returned(buf)
                       ELSE /\ recv_buf' = buf
                            /\ UNCHANGED <<pc, exc, sock, data, response>>
           [] r.kind = "eof" ->
                /\ Raise("EOFError", "closed")
                /\ UNCHANGED <<rbuf, recv_buf, response>>
           [] r.kind = "reset" ->
                /\ Raise("ConnectionResetError", "closed")
                /\ UNCHANGED <<rbuf, recv_buf, response>>
           [] OTHER ->
                \* the poll timed out (at once when timeout = 0)
                /\ Raise("TimeoutError", "closed")
                /\ UNCHANGED <<rbuf, recv_buf, response>>
    /\ UNCHANGED <<op, shutWr, sendqueue, written, nwrites, closeSent,
                   wire, inflight, peer, peerReset, npeer>>
    /\ UNCHANGED ctor

\* ProxyFile.close(), called by the application.
CloseCall ==
    /\ pc = "idle"
    /\ op' = "close"
    /\ exc' = "none"
    /\ pc' = PcClose(sock, sendqueue)
    /\ closeSent' = 0
    /\ UNCHANGED <<sock, shutWr, data, sendqueue, recv_buf, response, written,
                   nwrites, netVars>>
    /\ UNCHANGED ctor

\* __del__ of a ProxyFile whose constructor raised: close().  The socket is
\* either closed already or was never connected; on a socket that was never
\* connected the queue is empty and shutdown(SHUT_WR) raises OSError, after
\* which the finally clause closes it.
Del ==
    /\ pc = "failed"
    /\ op' = "close"
    /\ pc' = "deleted"
    /\ IF PcClose(sock, sendqueue) = "idle"
       THEN exc' = "none" /\ UNCHANGED sock
       ELSE exc' = "OSError" /\ sock' = "closed"
    /\ UNCHANGED <<shutWr, data, sendqueue, recv_buf, response, written,
                   nwrites, closeSent, netVars>>
    /\ UNCHANGED ctor

\* close(): `if poller.poll(self.timeout): self._retry_queued()` with the
\* socket registered for EPOLLOUT, else TimeoutError.
ClosePoll ==
    /\ pc = "close_poll"
    /\ IF inflight < SockCap \/ peer = "closed"
       THEN /\ pc' = PcRetry(op, sendqueue, data)
            /\ UNCHANGED <<exc, sock, data>>
       ELSE Raise("TimeoutError", "closed")
    /\ UNCHANGED <<op, shutWr, sendqueue, recv_buf, response, written, nwrites,
                   closeSent, netVars>>
    /\ UNCHANGED ctor

\* close(): self.sock.shutdown(socket.SHUT_WR), then _recv_msg().
HalfClose ==
    /\ pc = "shutdown"
    /\ shutWr' = TRUE
    /\ pc' = "bye_recv"
    /\ UNCHANGED <<op, exc, sock, data, sendqueue, recv_buf, response, written,
                   nwrites, closeSent, netVars>>
    /\ UNCHANGED ctor

\* ------------------------------------------------------------- the peer
\* The byte strings the peer may put on the stream: the two sentinels, an
\* error payload without a kind, an empty message, a payload naming an
\* exception class and one naming another builtin, each NUL-terminated, and
\* a fragment that is not terminated.
PeerMsgs ==
    { FILE_OK \o <<NUL>>, GOODBYE \o <<NUL>>, <<"E", NUL>>, <<NUL>>, <<"E">>,
      <<"OSError", ": ", NUL>>, <<"print", ": ", NUL>> }

PeerLive == sock = "open" /\ pc \notin {"new", "failed"}

\* The peer reads k of the bytes waiting in the socket.
PeerRecv(k) ==
    /\ PeerLive /\ peer = "open"
    /\ k \in 1..inflight
    /\ inflight' = inflight - k
    /\ UNCHANGED <<clientVars, wire, rbuf, peer, peerReset, npeer>>

\* The peer sends m; it answers OK only once it has read the handshake.
PeerSend(m) ==
    /\ PeerLive /\ peer # "closed"
    /\ npeer < MaxPeerSends
    /\ m = FILE_OK \o <<NUL>> => Len(wire) - inflight >= HandshakeLen
    /\ rbuf' = rbuf \o m
    /\ npeer' = npeer + 1
    /\ UNCHANGED <<clientVars, wire, inflight, peer, peerReset>>

\* The peer half-closes its socket for reading: the client's sends fail
\* with EPIPE while nothing becomes readable.
PeerShutRd ==
    /\ PeerLive /\ peer = "open"
    /\ peer' = "rd_shut"
    /\ UNCHANGED <<clientVars, wire, inflight, rbuf, peerReset, npeer>>

\* The peer closes its socket; unread client bytes make the close a reset.
PeerClose ==
    /\ PeerLive /\ peer # "closed"
    /\ peer' = "closed"
    /\ peerReset' = (inflight > 0)
    /\ UNCHANGED <<clientVars, wire, inflight, rbuf, npeer>>

\* =================================================================== server
\* ------------------------------------------------------------------ bounds
\* Number of connections accepted in a run (client ids 0..MaxClients-1).
MaxClients == 2
\* Number of client sockets that can be open at once (fds 1..MaxFds).
MaxFds == 2
\* Number of datagrams sent to the data socket in a run.
MaxDgrams == 2
\* Capacity of the data socket's receive queue, in datagrams.
MaxDataQ == 1
\* The clock stops at this many seconds.
MaxTime == 2

\* ------------------------------------------------------- program constants
\* server.py:17 has 5 (seconds); scaled with the clock's range.
FILE_CLOSE_TIMEOUT == 1

ERR_INVALID_COMMAND == <<"error: invalid command">>
ERR_EMBEDDED_NULLS == <<"error: embedded null character in filepath">>

\* ------------------------------------------------------------------- paths
\* A path is the sequence of its components, an absolute one starting with
\* the root "/": "/a" is <<"/", "a">>, "a" is <<"a">>, "" is <<>>.
Cwd == <<"/">>

RawPaths ==
    { <<"/", "a">>, <<"/", "b">>, <<"b", "..", "a">>, <<>> }

RECURSIVE normpath_from(_, _)
normpath_from(acc, rest) ==
    IF rest = <<>> THEN acc
    ELSE LET c == Head(rest)
         IN  IF c = "." THEN normpath_from(acc, Tail(rest))
             ELSE IF c = ".."
                  THEN normpath_from(IF Len(acc) > 1
                                     THEN SubSeq(acc, 1, Len(acc) - 1)
                                     ELSE acc, Tail(rest))
             ELSE normpath_from(Append(acc, c), Tail(rest))

\* os.path.abspath: join with the working directory unless absolute, then
\* normalise "." and "..".
abspath(path) ==
    LET joined == IF path # <<>> /\ path[1] = "/" THEN path ELSE Cwd \o path
    IN  normpath_from(<<"/">>, Tail(joined))

AbsPaths == { abspath(path) : path \in RawPaths }

\* open(filepath, 'ab') raises OSError (IsADirectoryError) on a directory and
\* creates the file when it does not exist.
open_fails(filepath) == filepath = <<"/">>

\* ------------------------------------------------------------- FileHandler
None == 0

NewFileHandler(filepath) ==
    [filepath |-> filepath, clients |-> {}, file |-> None]

\* The lowest file descriptor not in use.
RECURSIVE lowest_free(_, _)
lowest_free(used, n) == IF n \notin used THEN n ELSE lowest_free(used, n + 1)

\* The server state the file handlers and the timeout tasks live in.
SrvState ==
    [instances |-> instances, open_files |-> open_files, fs |-> fs,
     tasks |-> tasks, timeout_tasks |-> timeout_tasks]

\* FileHandler.instance(filepath): the registry after the lookup.
FileHandler_instance(st, filepath) ==
    IF filepath \notin DOMAIN st.instances
    THEN [st EXCEPT !.instances = (filepath :> NewFileHandler(filepath)) @@ @]
    ELSE st

\* FileHandler.write(client_id, msg) on the handler registered for filepath.
\* `io` is what the disk does to this request: "ok", "EOPEN" (open raises
\* OSError) or "EWRITE" (file.write or flush raises OSError).
FileHandler_write(st, filepath, client_id, io) ==
    LET h == st.instances[filepath]
        h1 == [h EXCEPT !.clients = @ \cup {client_id}]
        fd == lowest_free(DOMAIN st.open_files, 1)
        fails == open_fails(filepath) \/ io = "EOPEN"
        \* the handler, the descriptors and the files after `if self.file is
        \* None: self.file = open(self.filepath, 'ab')` has succeeded
        opened == [st EXCEPT
                      !.instances[filepath] = [h1 EXCEPT !.file = fd],
                      !.open_files = (fd :> filepath) @@ @,
                      !.fs = IF filepath \in DOMAIN @ THEN @
                             ELSE (filepath :> 0) @@ @]
        st1 == IF h1.file = None THEN opened
               ELSE [st EXCEPT !.instances[filepath] = h1]
    IN  IF h1.file = None /\ fails
        THEN \* except (OSError, IOError): log and return; file stays None
             [st EXCEPT !.instances[filepath] = h1]
        ELSE IF io = "EWRITE"
        THEN \* file.write raised: `return`, the file stays open
             st1
        ELSE [st1 EXCEPT !.fs[filepath] = @ + 1]

\* A function without the key k.
Without(f, k) == [x \in DOMAIN f \ {k} |-> f[x]]

\* A close() that removes the handler and leaves its file open.
FileHandler_close_leak(st, h) ==
    [st EXCEPT !.instances = Without(@, h.filepath)]

\* FileHandler.close() of the handler h.
FileHandler_close(st, h) ==
    [st EXCEPT
        !.instances = Without(@, h.filepath),
        !.open_files = IF h.file # None THEN Without(@, h.file) ELSE @]

\* A client_done() that removes the id and keeps an emptied handler.
FileHandler_client_done_keep(st, filepath, client_id) ==
    [st EXCEPT !.instances[filepath].clients = @ \ {client_id}]

\* FileHandler.client_done(client_id) on the handler registered for filepath.
FileHandler_client_done(st, filepath, client_id) ==
    LET h == st.instances[filepath]
        h1 == [h EXCEPT !.clients = @ \ {client_id}]
    IN  IF client_id \in h.clients
        THEN IF h1.clients = {}
             THEN FileHandler_close([st EXCEPT !.instances[filepath] = h1], h1)
             ELSE [st EXCEPT !.instances[filepath] = h1]
        ELSE st

\* FileHandler.close_all().
RECURSIVE FileHandler_close_all(_)
FileHandler_close_all(st) ==
    IF DOMAIN st.instances = {} THEN st
    ELSE LET fp == CHOOSE x \in DOMAIN st.instances : TRUE
         IN  FileHandler_close_all(FileHandler_close(st, st.instances[fp]))

\* ---------------------------------------------------------- Task, TaskQueue
Task(t, client_id, filepath) ==
    [due_at |-> t + FILE_CLOSE_TIMEOUT, client_id |-> client_id,
     filepath |-> filepath, called |-> FALSE]

\* Task.__gt__ seen through `<`: a < b iff b.__gt__(a).
TaskLess(a, b) == b.due_at < a.due_at

\* bisect.insort (insort_right): after the last entry that is not greater.
RECURSIVE insort_at(_, _, _)
insort_at(q, x, i) ==
    IF i > Len(q) \/ TaskLess(x, q[i])
    THEN SubSeq(q, 1, i - 1) \o <<x>> \o SubSeq(q, i, Len(q))
    ELSE insort_at(q, x, i + 1)

\* An add that puts the new task at the end of the list, where pop() takes.
TaskQueue_add_last(q, task) == Append(q, task)

\* TaskQueue.add: insort(self, task).
TaskQueue_add(q, task) == insort_at(q, task, 1)

TaskQueue_next(q) == q[Len(q)]

\* list.remove: the first equal entry goes.
RECURSIVE list_remove(_, _)
list_remove(q, x) ==
    IF q = <<>> THEN q
    ELSE IF Head(q) = x THEN Tail(q)
    ELSE <<Head(q)>> \o list_remove(Tail(q), x)

TaskQueue_cancel(q, task) == list_remove(q, task)

\* ------------------------------------------------------- Server: timeouts
set_timeout(st, t, client_id, filepath) ==
    LET task == Task(t, client_id, filepath)
    IN  [st EXCEPT
            !.tasks = TaskQueue_add(@, task),
            !.timeout_tasks = (<<client_id, filepath>> :> task) @@ @]

\* A cancel that forgets the pair's task and leaves it in the queue.
cancel_timeout_forget(st, client_id, filepath) ==
    LET key == <<client_id, filepath>>
    IN  IF key \in DOMAIN st.timeout_tasks
        THEN [st EXCEPT !.timeout_tasks = Without(@, key)]
        ELSE st

cancel_timeout(st, client_id, filepath) ==
    LET key == <<client_id, filepath>>
    IN  IF key \in DOMAIN st.timeout_tasks
        THEN [st EXCEPT
                 !.timeout_tasks = Without(@, key),
                 !.tasks = TaskQueue_cancel(@, st.timeout_tasks[key])]
        ELSE st

do_timeout(st, client_id, filepath) ==
    LET st1 == FileHandler_instance(st, filepath)
        st2 == FileHandler_client_done(st1, filepath, client_id)
    IN  [st2 EXCEPT !.timeout_tasks = Without(@, <<client_id, filepath>>)]

\* --------------------------------------------------- Server: data socket
\* A datagram: `nuls` NUL separators (2 stands for two or more, what
\* split(b'\0', 2) distinguishes), a first field that int() accepts or not,
\* and the path field.
Dgrams(assigned) ==
    { [nuls |-> 2, int_id |-> TRUE, client_id |-> c, path |-> path, io |-> "ok"] :
          c \in assigned, path \in RawPaths }
    \cup { [nuls |-> 2, int_id |-> TRUE, client_id |-> c, path |-> <<"/", "a">>,
            io |-> e] : c \in assigned, e \in {"EOPEN", "EWRITE"} }
    \cup { [nuls |-> 1, int_id |-> TRUE, client_id |-> 0, path |-> <<"/", "a">>,
            io |-> "ok"],
           [nuls |-> 2, int_id |-> FALSE, client_id |-> 0, path |-> <<"/", "a">>,
            io |-> "ok"] }

\* A handle_write_request that takes the first field for an id unchecked.
handle_write_request_any_id(st, t, d) ==
    IF d.nuls + 1 # 3 THEN st
    ELSE LET filepath == abspath(d.path)
             st1 == FileHandler_instance(st, filepath)
             st2 == FileHandler_write(st1, filepath, d.client_id, d.io)
             st3 == cancel_timeout(st2, d.client_id, filepath)
         IN  set_timeout(st3, t, d.client_id, filepath)

\* handle_write_request() for the datagram d received at time t.
handle_write_request(st, t, d) ==
    IF d.nuls + 1 # 3 THEN st
    ELSE IF ~d.int_id THEN st
    ELSE LET filepath == abspath(d.path)
             st1 == FileHandler_instance(st, filepath)
             st2 == FileHandler_write(st1, filepath, d.client_id, d.io)
             st3 == cancel_timeout(st2, d.client_id, filepath)
         IN  set_timeout(st3, t, d.client_id, filepath)

\* Mutant of drain_data_sock: shutdown() closes the data socket unread.
drain_data_sock_skip(st, t, q) == st

\* shutdown(): handle_write_request() until the data socket would block.
RECURSIVE drain_data_sock(_, _, _)
drain_data_sock(st, t, q) ==
    IF q = <<>> THEN st
    ELSE drain_data_sock(handle_write_request(st, t, Head(q)), t, Tail(q))

\* ------------------------------------------------ Server: control socket
\* A control message: the command before the first NUL and the NUL-separated
\* fields after it.  args = <<>> is a message without any NUL, <<p>> one
\* argument p, <<p, q>> an argument with a NUL embedded in it.
CtlMsgs ==
    { [command |-> c, args |-> a] :
          c \in {"check_access", "done"},
          a \in {<<>>, << <<"/", "b">>, <<"a">> >>} \cup { <<path>> : path \in RawPaths } }
    \cup { [command |-> "hello", args |-> a] :
               a \in {<<>>, << <<>> >>, << <<"/", "a">> >>} }
    \cup { [command |-> "bogus", args |-> <<>>] }

cmd_hello(client_id) == <<"welcome", NUL, ToString(client_id)>>

\* What a cmd_* method does: the state it leaves, its response, and the
\* exception it raises ("none" when it returns).
CmdResult(st, resp, raised) == [st |-> st, response |-> resp, raised |-> raised]

\* cmd_check_access(client_id, filepath); `args` as in CtlMsgs.  Without a
\* NUL in the message the argument is the empty list, which os.fsdecode
\* rejects with TypeError.
cmd_check_access(st, client_id, args) ==
    IF Len(args) > 1 THEN CmdResult(st, ERR_EMBEDDED_NULLS, "none")
    ELSE IF args = <<>> THEN CmdResult(st, <<>>, "TypeError")
    ELSE LET filepath == abspath(args[1])
         IN  IF open_fails(filepath)
             THEN CmdResult(st, <<"IsADirectoryError">>, "none")
             ELSE CmdResult(
                      [st EXCEPT !.fs = IF filepath \in DOMAIN @ THEN @
                                        ELSE (filepath :> 0) @@ @],
                      <<"o", "k">>, "none")

\* cmd_done(client_id, filepath).
cmd_done(st, client_id, args) ==
    IF Len(args) > 1 THEN CmdResult(st, ERR_EMBEDDED_NULLS, "none")
    ELSE IF args = <<>> THEN CmdResult(st, <<>>, "TypeError")
    ELSE LET filepath == abspath(args[1])
             st1 == cancel_timeout(st, client_id, filepath)
             st2 == FileHandler_instance(st1, filepath)
         IN  CmdResult(FileHandler_client_done(st2, filepath, client_id),
                       <<"o", "k">>, "none")

\* handle_control_request(): the dispatch on the command.  `not arg` holds
\* for a message without NUL and for an empty argument.
dispatch(st, client_id, msg) ==
    IF msg.command = "hello" /\ (msg.args = <<>> \/ msg.args = << <<>> >>)
    THEN CmdResult(st, cmd_hello(client_id), "none")
    ELSE IF msg.command = "check_access"
    THEN cmd_check_access(st, client_id, msg.args)
    ELSE IF msg.command = "done"
    THEN cmd_done(st, client_id, msg.args)
    ELSE CmdResult(st, ERR_INVALID_COMMAND, "none")

\* ------------------------------------------------------- Server actions
ServerInit ==
    /\ srv = "running" /\ srv_exc = "none"
    /\ control_open = TRUE /\ data_open = TRUE
    /\ client_ids = <<>> /\ client_socks = <<>>
    /\ poller = [control |-> TRUE, data |-> TRUE, selfpipe |-> TRUE, socks |-> {}]
    /\ next_client_id = 0
    /\ instances = <<>> /\ open_files = <<>> /\ fs = <<>>
    /\ tasks = <<>> /\ timeout_tasks = <<>>
    /\ now = 0 /\ dataq = <<>> /\ selfpipe = 0 /\ ndgrams = 0 /\ drained = 0

SetSrvState(st) ==
    /\ instances' = st.instances
    /\ open_files' = st.open_files
    /\ fs' = st.fs
    /\ tasks' = st.tasks
    /\ timeout_tasks' = st.timeout_tasks

\* run() raised e.
Crash(e) ==
    /\ srv' = "crashed"
    /\ srv_exc' = e
    /\ UNCHANGED <<control_open, data_open>>

\* An id assignment that derives the id from the descriptor number.
assign_client_id_by_fd(ids, fd, next_id) == (fd :> fd - 1) @@ ids

\* self.client_ids[client_sock.fileno()] = self.next_client_id
assign_client_id(ids, fd, next_id) == (fd :> next_id) @@ ids

\* A client connects and run() calls accept_new_client().  accept() returns
\* the lowest descriptor number that is free.
AcceptNewClient ==
    /\ srv = "running" /\ control_open
    /\ next_client_id < MaxClients
    /\ \E fd \in 1..MaxFds :
         /\ fd \notin DOMAIN client_socks
         /\ \A g \in 1..(fd - 1) : g \in DOMAIN client_socks
         /\ client_ids' = assign_client_id(client_ids, fd, next_client_id)
         /\ client_socks' = (fd :> "open") @@ client_socks
         /\ poller' = [poller EXCEPT !.socks = @ \cup {fd}]
    /\ next_client_id' = next_client_id + 1
    /\ UNCHANGED <<runVars, fileVars, envVars>>

\* A disconnect that closes the socket and leaves the maps as they are.
handle_client_disconnect_keep(fd) ==
    /\ poller' = [poller EXCEPT !.socks = @ \ {fd}]
    /\ UNCHANGED <<client_socks, client_ids>>

\* handle_client_disconnect(sock).
handle_client_disconnect(fd) ==
    /\ poller' = [poller EXCEPT !.socks = @ \ {fd}]
    /\ client_socks' = Without(client_socks, fd)
    /\ client_ids' = Without(client_ids, fd)

\* What a client socket can deliver to handle_control_request: a message
\* (with what the send of the response then does), end-of-stream, a reset.
CtlEvents ==
    { [kind |-> "msg", msg |-> m, send |-> s] :
          m \in CtlMsgs, s \in {"ok", "EAGAIN", "EPIPE"} }
    \cup { [kind |-> k, msg |-> [command |-> "", args |-> <<>>], send |-> "ok"] :
               k \in {"eof", "reset"} }

\* run() finds the client socket fd readable: handle_control_request(sock).
HandleControlRequest(fd, ev) ==
    /\ srv = "running"
    /\ fd \in poller.socks
    /\ IF ev.kind # "msg"
       THEN /\ handle_client_disconnect(fd)
            /\ UNCHANGED <<runVars, fileVars>>
       ELSE LET r == dispatch(SrvState, client_ids[fd], ev.msg)
            IN  IF r.raised # "none"
                THEN /\ Crash(r.raised)
                     /\ UNCHANGED <<client_ids, client_socks, poller, fileVars>>
                ELSE /\ SetSrvState(r.st)
                     /\ IF ev.send = "EPIPE"
                        THEN handle_client_disconnect(fd)
                        ELSE UNCHANGED <<client_ids, client_socks, poller>>
                     /\ UNCHANGED runVars
    /\ UNCHANGED <<next_client_id, envVars>>

\* A client sends the datagram d to the data socket.
SendDatagram(d) ==
    /\ srv = "running" /\ data_open
    /\ ndgrams < MaxDgrams
    /\ Len(dataq) < MaxDataQ
    /\ dataq' = Append(dataq, d)
    /\ ndgrams' = ndgrams + 1
    /\ UNCHANGED <<runVars, sessionVars, fileVars, now, selfpipe>>
    /\ UNCHANGED drained

\* run() finds the data socket readable: handle_write_request().
HandleWriteRequest ==
    /\ srv = "running"
    /\ dataq # <<>>
    /\ SetSrvState(handle_write_request(SrvState, now, Head(dataq)))
    /\ dataq' = Tail(dataq)
    /\ UNCHANGED <<runVars, sessionVars, now, selfpipe, ndgrams>>
    /\ UNCHANGED drained

\* Time passes.  With no task pending the clock's value is read by nothing
\* before the next task is created, so it only advances while one is.
Tick ==
    /\ srv = "running"
    /\ tasks # <<>>
    /\ now < MaxTime
    /\ now' = now + 1
    /\ UNCHANGED <<runVars, sessionVars, fileVars, dataq, selfpipe, ndgrams>>
    /\ UNCHANGED drained

\* run(): the poll timed out with nothing readable: `task = self.tasks.pop();
\* task()`, the task being a do_timeout.
RunTask ==
    /\ srv = "running"
    /\ tasks # <<>>
    /\ TaskQueue_next(tasks).due_at <= now
    /\ dataq = <<>> /\ selfpipe = 0
    /\ LET task == TaskQueue_next(tasks)
           st == [SrvState EXCEPT !.tasks = SubSeq(@, 1, Len(@) - 1)]
       IN  IF task.called
           THEN /\ Crash("RuntimeError")
                /\ SetSrvState(st)
           ELSE IF <<task.client_id, task.filepath>> \notin DOMAIN timeout_tasks
           THEN /\ Crash("KeyError")
                /\ SetSrvState(st)
           ELSE /\ SetSrvState(do_timeout(st, task.client_id, task.filepath))
                /\ UNCHANGED runVars
    /\ UNCHANGED <<sessionVars, envVars>>

\* SIGINT or SIGTERM: the handler writes one byte to the self-pipe.
Signal ==
    /\ srv = "running"
    /\ selfpipe = 0
    /\ selfpipe' = selfpipe + 1
    /\ UNCHANGED <<runVars, sessionVars, fileVars, now, dataq, ndgrams>>
    /\ UNCHANGED drained

\* run() finds the self-pipe readable: shutdown(), then return.
Shutdown ==
    /\ srv = "running"
    /\ selfpipe > 0
    /\ control_open' = FALSE
    /\ client_socks' = [fd \in DOMAIN client_socks |-> "closed"]
    /\ SetSrvState(FileHandler_close_all(drain_data_sock(SrvState, now, dataq)))
    /\ dataq' = <<>>
    /\ data_open' = FALSE
    /\ srv' = "exited"
    /\ UNCHANGED <<srv_exc, client_ids, poller, next_client_id, now, selfpipe,
                   ndgrams>>
    /\ drained' = drained + Len(dataq)

\* ------------------------------------------- _ByteQueue through its methods
\* Number of bytes put into the queue in a run.
MaxPut == 8
\* Largest number of bytes handed to one put call.
MaxPutLen == 3

\* _ByteQueue(): an empty deque.
QueueInit == bq = <<>> /\ bq_in = 0 /\ bq_out = 0

\* put(data) with the next n bytes of the input.
Put(n) ==
    /\ bq_in + n <= MaxPut
    /\ bq' = ByteQueue_put(bq, Stream(bq_in, n))
    /\ bq_in' = bq_in + n
    /\ UNCHANGED bq_out

\* done(n) with 0 <= n <= len(queue).
Done(n) ==
    /\ n <= ByteQueue_len(bq)
    /\ bq' = ByteQueue_done(bq, n)
    /\ bq_out' = bq_out + n
    /\ UNCHANGED bq_in

\* ---------------------------------------------------------- specifications
Init == ClientInit /\ ServerInit /\ QueueInit

\* The server's run loop and its clients.
Next ==
    \/ AcceptNewClient /\ UNCHANGED <<clientVars, netVars, queueVars>>
    \/ \E fd \in 1..MaxFds, ev \in CtlEvents :
         HandleControlRequest(fd, ev) /\ UNCHANGED <<clientVars, netVars, queueVars>>
    \/ \E d \in Dgrams(0..(next_client_id - 1)) :
         SendDatagram(d) /\ UNCHANGED <<clientVars, netVars, queueVars>>
    \/ HandleWriteRequest /\ UNCHANGED <<clientVars, netVars, queueVars>>
    \/ Tick /\ UNCHANGED <<clientVars, netVars, queueVars>>
    \/ RunTask /\ UNCHANGED <<clientVars, netVars, queueVars>>
    \/ Signal /\ UNCHANGED <<clientVars, netVars, queueVars>>
    \/ Shutdown /\ UNCHANGED <<clientVars, netVars, queueVars>>

Spec == Init /\ [][Next]_vars

\* One ProxyFile and its peer.
ClientNext ==
    \/ \E conn \in {"ok", "ENOENT", "ECONNREFUSED"}, hasNul \in BOOLEAN :
         Construct(conn, hasNul) /\ UNCHANGED <<serverVars, queueVars>>
    \/ \E n \in 0..MaxLen : WriteCall(n) /\ UNCHANGED <<serverVars, queueVars>>
    \/ RetrySend /\ UNCHANGED <<serverVars, queueVars>>
    \/ WriteSend /\ UNCHANGED <<serverVars, queueVars>>
    \/ RecvMsg /\ UNCHANGED <<serverVars, queueVars>>
    \/ CloseCall /\ UNCHANGED <<serverVars, queueVars>>
    \/ Del /\ UNCHANGED <<serverVars, queueVars>>
    \/ ClosePoll /\ UNCHANGED <<serverVars, queueVars>>
    \/ HalfClose /\ UNCHANGED <<serverVars, queueVars>>
    \/ \E k \in 1..SockCap : PeerRecv(k) /\ UNCHANGED <<serverVars, queueVars>>
    \/ \E m \in PeerMsgs : PeerSend(m) /\ UNCHANGED <<serverVars, queueVars>>
    \/ PeerShutRd /\ UNCHANGED <<serverVars, queueVars>>
    \/ PeerClose /\ UNCHANGED <<serverVars, queueVars>>

ClientSpec == Init /\ [][ClientNext]_vars

\* One _ByteQueue and a caller of put and done.
QueueNext ==
    \/ \E n \in 0..MaxPutLen :
         Put(n) /\ UNCHANGED <<clientVars, netVars, serverVars>>
    \/ \E n \in 0..MaxPut :
         Done(n) /\ UNCHANGED <<clientVars, netVars, serverVars>>

QueueSpec == Init /\ [][QueueNext]_vars

\* The run loop and clients that connect, write, say done and go away.
LiveCtlEvents ==
    { [kind |-> "msg", msg |-> [command |-> "done", args |-> <<path>>],
       send |-> "ok"] : path \in {<<"/", "a">>, <<"/", "b">>} }
    \cup { [kind |-> "eof", msg |-> [command |-> "", args |-> <<>>], send |-> "ok"] }

LiveDgrams(assigned) == { d \in Dgrams(assigned) : d.nuls = 2 /\ d.int_id }

LiveNext ==
    \/ AcceptNewClient /\ UNCHANGED <<clientVars, netVars, queueVars>>
    \/ \E fd \in 1..MaxFds, ev \in LiveCtlEvents :
         HandleControlRequest(fd, ev) /\ UNCHANGED <<clientVars, netVars, queueVars>>
    \/ \E d \in LiveDgrams(0..(next_client_id - 1)) :
         SendDatagram(d) /\ UNCHANGED <<clientVars, netVars, queueVars>>
    \/ HandleWriteRequest /\ UNCHANGED <<clientVars, netVars, queueVars>>
    \/ Tick /\ UNCHANGED <<clientVars, netVars, queueVars>>
    \/ RunTask /\ UNCHANGED <<clientVars, netVars, queueVars>>
    \/ Signal /\ UNCHANGED <<clientVars, netVars, queueVars>>
    \/ Shutdown /\ UNCHANGED <<clientVars, netVars, queueVars>>

\* The steps of LiveNext in which run() takes a datagram from the data
\* socket (HandleWriteRequest) and in which it finds the self-pipe readable
\* and shuts down (Shutdown), by what they do to the sockets and to run().
DataSockHandled ==
    /\ srv = "running" /\ dataq # <<>>
    /\ srv' = "running" /\ dataq' = Tail(dataq)

SelfPipeHandled == srv = "running" /\ selfpipe > 0 /\ srv' = "exited"

\* The run loop as it is scheduled: a readable data socket or self-pipe is
\* handled by the next poll, a poll with nothing readable times out when the
\* next task is due and run() calls it, and time passes.
LiveSpec ==
    /\ Init /\ [][LiveNext]_vars
    /\ WF_<<srv, dataq>>(DataSockHandled)
    /\ WF_srv(SelfPipeHandled)
    /\ WF_serverVars(Tick)
    /\ WF_serverVars(RunTask)

\* ------------------------------------------------ claims on the client

\* C1. For any writes W1..Wn and any pattern of partial sends and would-block
\* results, with the peer free to read between two send attempts: once a
\* write has returned, the bytes the socket accepted followed by the bytes in
\* the send queue are W1||...||Wn in call order, and no byte of a later write
\* is ever on the wire while a byte of an earlier write is still queued.
C1_WriteOrder ==
    /\ (pc = "idle" /\ exc = "none" /\ sock = "open")
          => wire \o Flat(sendqueue) = Stream(0, written)
    /\ \A i \in 1..Len(wire) :
          \A j \in 1..Len(Flat(sendqueue)) : wire[i] < Flat(sendqueue)[j]

\* C2. write never reports would-block: when the send of the new data would
\* block, write returns normally and the send queue grows at its tail by
\* exactly the bytes of `data` the socket has not accepted.
C2_WouldBlockQueued ==
    [][ (pc = "send" /\ pc' # "send"
            /\ \A r \in sock_send(Len(data)) : r.err = "EAGAIN")
        => /\ exc' = "none"
           /\ pc' = PcAfterWrite(op)
           /\ wire' = wire
           /\ Flat(sendqueue') = Flat(sendqueue) \o data ]_vars

\* A write that met would-block has returned normally with bytes queued.
C2_Witness ==
    pc = "idle" /\ op = "write" /\ exc = "none" /\ Flat(sendqueue) # <<>>


\* C8. When a send fails with broken pipe the client does a zero-timeout
\* receive: a non-empty NUL-terminated payload left by the server is raised
\* as the error it describes, otherwise (nothing readable, or only
\* end-of-stream) the broken-pipe error itself propagates; the socket ends
\* closed in every case.
C8_BrokenPipeDemux ==
    [][ (pc = "epipe_recv" /\ pc' # "epipe_recv")
        => /\ sock' = "closed"
           /\ exc' = (IF NulIndexFrom(recv_buf \o rbuf, 1) > 1
                      THEN make_exception(partition(recv_buf \o rbuf).msg)
                      ELSE "BrokenPipeError") ]_vars

\* C9. close() half-closes the socket for writing only once the send queue
\* is empty, every byte handed to write being on the wire by then; and when
\* the poll for writability times out with bytes still queued, close raises
\* TimeoutError and leaves the socket closed.
C9_CloseDrains ==
    /\ [](shutWr => Flat(sendqueue) = <<>>)
    /\ [][ (~shutWr /\ shutWr')
           => (Flat(sendqueue) = <<>> /\ Len(wire) = written) ]_vars
    /\ [][ (pc = "close_poll" /\ pc' # "close_poll"
               /\ inflight >= SockCap /\ peer # "closed")
           => (exc' = "TimeoutError" /\ sock' = "closed"
               /\ sendqueue' = sendqueue /\ shutWr' = FALSE) ]_vars

\* A close() that found bytes queued, got them accepted, and half-closed.
C9_Witness == shutWr /\ closeSent > 0 /\ Flat(sendqueue) = <<>>

\* C10. After draining and half-closing, close() completes without raising
\* when the server answers with end-of-stream instead of BYE.
C10_EofTolerated ==
    ~(op = "close" /\ pc = "idle" /\ shutWr /\ recv_buf = <<>>
        /\ exc = "EOFError")

\* C11: close() is idempotent.  After any call of close(), returned or
\* raised, the socket is closed; a close() called with the socket closed
\* (a later close, the destructor's included) returns at once: it raises
\* nothing, sends nothing and receives nothing.
C11_CloseIdempotent ==
    /\ []((op = "close" /\ pc \in {"idle", "deleted"}) => sock = "closed")
    /\ [][ (sock = "closed" /\ op' = "close" /\ pc \in {"idle", "failed"})
           => /\ pc' = (IF pc = "idle" THEN "idle" ELSE "deleted")
              /\ exc' = "none" /\ sock' = "closed"
              /\ UNCHANGED <<shutWr, sendqueue, recv_buf, response, netVars>> ]_vars

\* A close() has returned normally although the peer is still open and was
\* never sent a half-close: an earlier close() timed out flushing the queue,
\* closed the socket and raised, and this later close() did nothing.
C11_Witness ==
    /\ op = "close" /\ pc = "idle" /\ exc = "none" /\ sock = "closed"
    /\ peer = "open" /\ ~shutWr /\ Flat(sendqueue) # <<>>

\* How a step that ends the constructor's wait for the handshake response
\* must end it.  The bytes of the response stream not yet returned are those
\* buffered and those still in the socket; `closedExc` is what is raised
\* when the server has closed without a complete response.
HandshakeEnds(closedExc) ==
    LET first == partition(recv_buf \o rbuf)
    IN  IF first.null
        THEN IF first.msg = FILE_OK
             THEN pc' = "idle" /\ exc' = "none" /\ sock' = "open"
             ELSE /\ pc' = "failed" /\ sock' = "closed"
                  /\ exc' = make_exception(first.msg)
        ELSE /\ pc' = "failed" /\ sock' = "closed"
             /\ exc' = (IF peer = "closed" THEN closedExc ELSE "TimeoutError")

\* C12 as stated: the handshake ends in STREAMING iff the first
\* NUL-terminated response is exactly OK; any other response is raised as
\* the error built from it; when the server closes first the constructor
\* raises EOFError and when no complete response arrives in time
\* TimeoutError; every outcome but OK leaves the socket closed.
C12_HandshakeAsStated ==
    /\ [][ (pc = "hs_recv" /\ pc' # "hs_recv") => HandshakeEnds("EOFError") ]_vars
    /\ []((op = "init" /\ pc = "idle") => (response = FILE_OK /\ sock = "open"))

\* C12, amended: as stated, except that a server that closes first while
\* bytes of the client are unread in its socket makes the constructor raise
\* ConnectionResetError, not EOFError.
C12_Handshake ==
    /\ [][ (pc = "hs_recv" /\ pc' # "hs_recv")
           => HandshakeEnds(IF peerReset THEN "ConnectionResetError"
                            ELSE "EOFError") ]_vars
    /\ []((op = "init" /\ pc = "idle") => (response = FILE_OK /\ sock = "open"))

\* The constructor has returned: the response OK arrived and the ProxyFile
\* is streaming.
C12_Witness ==
    /\ op = "init" /\ pc = "idle" /\ exc = "none" /\ sock = "open"
    /\ response = FILE_OK /\ Len(wire) = HandshakeLen

\* C13: a constructor that reached the server and was given a filepath
\* with an embedded NUL fails with ValueError, no byte having been handed to
\* the socket, and leaves the socket closed.
C13_NulPathRejected ==
    (pc # "new" /\ ctor.conn = "ok" /\ ctor.hasNul)
        => /\ pc \in {"failed", "deleted"}
           /\ pc = "failed" => exc = "ValueError"
           /\ wire = <<>> /\ sendqueue = <<>> /\ written = 0
           /\ sock = "closed"

\* The constructor was given a filepath with a NUL and has raised.
C13_Witness ==
    pc = "failed" /\ ctor.conn = "ok" /\ ctor.hasNul /\ exc = "ValueError"

\* ------------------------------------------------------------ server claims
\* The client ids a run can assign.
ClientIds == 0..(MaxClients - 1)

\* The descriptors open on the path p.
FdsOf(of, p) == { fd \in DOMAIN of : of[fd] = p }

\* C3: at any moment the server holds at most one FileHandler and at most
\* one open file descriptor for an absolute path: the registry's entry for p
\* is the handler of p, no two descriptors are open on one path, and every
\* open descriptor is the file of the registered handler of its path.
C3_OneHandlerOneDescriptor ==
    /\ \A p \in DOMAIN instances : instances[p].filepath = p
    /\ \A p \in AbsPaths : Cardinality(FdsOf(open_files, p)) <= 1
    /\ \A fd \in DOMAIN open_files :
          /\ open_files[fd] \in DOMAIN instances
          /\ instances[open_files[fd]].file = fd

\* Two clients share the one open file of a path while another path is open.
C3_Witness ==
    /\ srv = "running"
    /\ \E p \in DOMAIN instances :
          /\ Cardinality(instances[p].clients) = 2
          /\ instances[p].file # None
          /\ p \in DOMAIN fs /\ fs[p] = 2

\* What removing the id c from the handler of p must leave behind.
ClientDoneEffect(p, c) ==
    /\ \A q \in DOMAIN instances \ {p} :
          q \in DOMAIN instances' /\ instances'[q] = instances[q]
    /\ IF instances[p].clients = {c}
       THEN /\ p \notin DOMAIN instances'
            /\ FdsOf(open_files', p) = {}
       ELSE /\ p \in DOMAIN instances'
            /\ instances'[p] = [instances[p] EXCEPT !.clients = @ \ {c}]
            /\ open_files' = open_files

\* C4: client_done(id) removes id from the handler's client set; when that
\* empties the set the file is closed and the handler leaves the registry,
\* otherwise the handler keeps its file and its other clients; client_done
\* for an id that is not attached changes nothing.
C4_ClientDone ==
    /\ [][ \A p \in DOMAIN instances : \A c \in instances[p].clients :
             (srv' = "running"
                /\ (p \notin DOMAIN instances' \/ c \notin instances'[p].clients))
             => ClientDoneEffect(p, c) ]_vars
    /\ [](\A p \in DOMAIN instances : \A c \in ClientIds \ instances[p].clients :
             FileHandler_client_done(SrvState, p, c) = SrvState)

\* A file that was written has been closed and its handler removed by a
\* client_done while the server runs.
C4_Witness ==
    /\ srv = "running"
    /\ open_files = <<>>
    /\ \E p \in DOMAIN fs : fs[p] >= 1 /\ p \notin DOMAIN instances

\* C5: while the server runs, every FileHandler in the registry has a
\* non-empty client set.
C5_NoEmptyHandler ==
    srv = "running" => \A p \in DOMAIN instances : instances[p].clients # {}

\* The handlers the client id c is attached to.
AttachedTo(c) == { p \in DOMAIN instances : c \in instances[p].clients }

\* C6: a client's id is in at most one handler's client set, and in none
\* unless its connection is live: the disconnect detaches it.
C6_AttachedWhileConnected ==
    srv = "running" =>
        \A c \in ClientIds :
            /\ Cardinality(AttachedTo(c)) <= 1
            /\ AttachedTo(c) # {} => \E fd \in DOMAIN client_ids : client_ids[fd] = c

\* C7: no message of a client and no I/O error of a client's socket makes
\* run() raise.
C7_RunLoopSurvives == srv # "crashed"

\* C14: run() returns after a shutdown only once the listening socket is
\* closed and the session maps are empty: every client session has been
\* removed from client_socks and client_ids.
C14_SessionsCleanedUp ==
    srv = "exited" =>
        /\ ~control_open
        /\ DOMAIN client_socks = {} /\ DOMAIN client_ids = {}

\* The records appended to the file p so far.
Appended(f, p) == IF p \in DOMAIN f THEN f[p] ELSE 0

\* The write requests for the file p among the datagrams q: those of three
\* fields with an integer id, that the disk lets through.
RECURSIVE Pending(_, _)
Pending(q, p) ==
    IF q = <<>> THEN 0
    ELSE (IF /\ Head(q).nuls = 2 /\ Head(q).int_id /\ Head(q).io = "ok"
             /\ abspath(Head(q).path) = p
          THEN 1 ELSE 0) + Pending(Tail(q), p)

C16_SignalShutdown ==
    /\ [][ selfpipe' # selfpipe
           => /\ selfpipe' = selfpipe + 1
              /\ UNCHANGED <<runVars, sessionVars, fileVars, now, dataq,
                             ndgrams, drained>> ]_vars
    /\ [][ (~control_open' /\ control_open) \/ (~data_open' /\ data_open)
           => (srv = "running" /\ selfpipe > 0 /\ srv' = "exited") ]_vars
    /\ []((selfpipe > 0 /\ srv # "running") => srv = "exited")

\* The run loop handles the write request at the head of the data socket: a
\* datagram of three fields with an integer id, and run() goes on.
WriteHandled ==
    /\ srv = "running" /\ srv' = "running"
    /\ dataq # <<>> /\ dataq' = Tail(dataq)
    /\ Head(dataq).nuls = 2 /\ Head(dataq).int_id

\* The open or the write of the request at the head of the data socket
\* fails: the disk refuses the write, or the handler has no file and the
\* open is refused.
WriteFails ==
    LET d == Head(dataq)
        p == abspath(d.path)
        has_file == p \in DOMAIN instances /\ instances[p].file # None
        open_refused == ~has_file /\ (open_fails(p) \/ d.io = "EOPEN")
    IN  open_refused \/ d.io = "EWRITE"

\* C17: a write request whose open or write fails leaves its handler without
\* a file handle, and a write request for a handler that has lost its file
\* handle is a no-op: no file is opened, no record is appended, and the
\* handler stays without a file handle.
C17_FailedHandlerInert ==
    [][ WriteHandled
        => LET p == abspath(Head(dataq).path)
           IN  /\ WriteFails => instances'[p].file = None
               /\ (p \in DOMAIN instances /\ instances[p].file = None)
                  => /\ fs' = fs /\ open_files' = open_files
                     /\ instances'[p].file = None ]_vars

\* A raw path that begins with "/".
isabs(path) == path # <<>> /\ path[1] = "/"

\* C18: a check_access request for a path that is not absolute, the empty
\* path included, is answered with an error and creates no file, and a write
\* request for such a path opens, creates and writes no file and registers
\* no FileHandler.
C18_RelativePathRejected ==
    /\ [](srv = "running"
          => \A fd \in DOMAIN client_ids : \A path \in RawPaths :
                ~isabs(path)
                => LET r == cmd_check_access(SrvState, client_ids[fd], <<path>>)
                   IN  /\ r.raised = "none" /\ r.response # <<"o", "k">>
                       /\ r.st = SrvState)
    /\ [][ (WriteHandled /\ ~isabs(Head(dataq).path))
           => UNCHANGED <<fs, open_files, instances>> ]_vars

\* The responses handle_control_request() would send in the current state:
\* one for every connected client and every request that raises nothing.
Responses ==
    { [msg |-> msg, response |-> dispatch(SrvState, client_ids[fd], msg).response] :
          <<fd, msg>> \in { x \in (DOMAIN client_ids) \X CtlMsgs :
                              dispatch(SrvState, client_ids[x[1]], x[2]).raised = "none" } }

\* A check_access request for a single path that the server can open.
ValidOpen(msg) ==
    /\ msg.command = "check_access" /\ Len(msg.args) = 1
    /\ ~open_fails(abspath(msg.args[1]))

\* C19: every response of the server ends with a NUL, and the response to a
\* valid open request is the two bytes OK and a NUL, which the client's
\* handshake reads as the OK sentinel.
C19_ResponseFraming ==
    srv = "running"
    => \A r \in Responses :
          /\ r.response # <<>> /\ r.response[Len(r.response)] = NUL
          /\ ValidOpen(r.msg)
             => /\ r.response = FILE_OK \o <<NUL>>
                /\ partition(r.response).null
                /\ partition(r.response).msg = FILE_OK

\* The descriptors whose connection is new or has a new id after the step.
NewlyAssigned ==
    { fd \in DOMAIN client_ids' :
          fd \notin DOMAIN client_ids \/ client_ids'[fd] # client_ids[fd] }

\* C20: the id counter never decreases; a connection that is accepted gets the
\* counter's value, which is non-negative and greater than every id assigned
\* before (all of which are below the counter), and the counter moves past
\* it; so the connected clients have distinct ids, whatever descriptor
\* numbers they reuse.
C20_IdsIncrease ==
    /\ [](/\ next_client_id >= 0
          /\ \A fd \in DOMAIN client_ids :
                /\ client_ids[fd] >= 0 /\ client_ids[fd] < next_client_id
                /\ \A g \in DOMAIN client_ids :
                      client_ids[g] = client_ids[fd] => g = fd)
    /\ [][ /\ next_client_id' >= next_client_id
           /\ \A fd \in NewlyAssigned :
                 /\ client_ids'[fd] = next_client_id
                 /\ next_client_id' = next_client_id + 1 ]_vars

\* The second connection of the run has been accepted on the descriptor
\* number the first one had, after the first disconnected.
C20_Witness ==
    /\ next_client_id = 2 /\ DOMAIN client_ids = {1} /\ client_ids[1] = 1

\* The positions of a caller inside _recv_msg.
RecvStates == {"epipe_recv", "hs_recv", "bye_recv"}

\* C24: the bytes the server sent and no _recv_msg call has returned yet are
\* recv_buf followed by what waits in the socket.  A turn of _recv_msg (a
\* step of the caller, not of the peer) that does not end the call keeps them; and when a complete message is among
\* them, the call ends by returning it, the bytes before the first NUL, and
\* keeps the bytes after that NUL for the next call.
C24_RecvMsgFraming ==
    [][ (pc \in RecvStates /\ UNCHANGED <<npeer, peer, inflight>>)
        => LET first == partition(recv_buf \o rbuf)
           IN  IF pc' = pc
               THEN recv_buf' \o rbuf' = recv_buf \o rbuf
               ELSE (first.null
                     => (response' = first.msg
                         /\ recv_buf' \o rbuf' = first.extradata)) ]_vars

\* C25: when the constructor has raised, whatever the failure, the client
\* socket is closed.
C25_FailedCtorClosesSocket == pc = "failed" => sock = "closed"

\* ------------------------------------------------ claims on _ByteQueue
\* C21: after any puts and any done(n) with 0 <= n <= len(queue), the length
\* is the bytes put minus the bytes done, the queue holds the bytes put
\* without the first ones done, in put order, and peek() of a non-empty queue
\* is a non-empty prefix of them of at most BUFSIZE bytes.
C21_QueueIsFifo ==
    /\ ByteQueue_len(bq) = bq_in - bq_out
    /\ Flat(bq) = Stream(bq_out, bq_in - bq_out)
    /\ bq # <<>>
       => /\ ByteQueue_peek(bq) # <<>> /\ Len(ByteQueue_peek(bq)) <= BUFSIZE
          /\ ByteQueue_peek(bq) = Take(Flat(bq), Len(ByteQueue_peek(bq)))

\* C22: every chunk of the deque is non-empty and holds at most BUFSIZE bytes,
\* every chunk other than the first and the last holds exactly BUFSIZE bytes,
\* and __len__ is the number of bytes in the deque.
C22_ChunksWellFormed ==
    /\ \A i \in 1..Len(bq) :
          /\ Len(bq[i]) >= 1 /\ Len(bq[i]) <= BUFSIZE
          /\ (1 < i /\ i < Len(bq)) => Len(bq[i]) = BUFSIZE
    /\ ByteQueue_len(bq) = Len(Flat(bq))

\* Three chunks, the first partly consumed by done(1), a full one in the
\* middle, and a partly filled last one.
C22_Witness == bq = << <<2>>, <<3, 4>>, <<5>> >>

\* ------------------------------------------------ claims on the server
\* C23: while run() is in its loop the poller holds the control socket, the
\* data socket, the self-pipe and exactly the descriptors of the connected
\* clients, which are the keys of client_socks and of client_ids, each with an
\* open socket and an id of its own; and a step that ends a session (EOF,
\* reset, or broken pipe on the reply) takes one descriptor out of the
\* poller and out of both mappings.
C23_PollerMatchesSessions ==
    /\ [](srv = "running"
          => /\ poller.control /\ poller.data /\ poller.selfpipe
             /\ poller.socks = DOMAIN client_socks
             /\ DOMAIN client_socks = DOMAIN client_ids
             /\ \A fd \in DOMAIN client_socks :
                   /\ client_socks[fd] = "open"
                   /\ \A g \in DOMAIN client_ids :
                         client_ids[g] = client_ids[fd] => g = fd)
    /\ [][ (/\ srv = "running" /\ next_client_id' = next_client_id
            /\ <<poller, client_socks, client_ids>>'
                   # <<poller, client_socks, client_ids>>
            /\ srv' # "exited")
           => \E fd \in DOMAIN client_ids :
                 /\ poller' = [poller EXCEPT !.socks = @ \ {fd}]
                 /\ client_socks' = Without(client_socks, fd)
                 /\ client_ids' = Without(client_ids, fd) ]_vars

\* The first of two connected clients has disconnected; the second is still
\* served on descriptor 2.
C23_Witness ==
    /\ srv = "running" /\ next_client_id = 2
    /\ poller.socks = {2} /\ DOMAIN client_ids = {2} /\ DOMAIN client_socks = {2}

\* The server state after run() has popped the next task and called it.
AfterTimeout ==
    LET task == TaskQueue_next(tasks)
        st == [SrvState EXCEPT !.tasks = SubSeq(@, 1, Len(@) - 1)]
    IN  do_timeout(st, task.client_id, task.filepath)

C27_TimeoutsMatchClients ==
    /\ srv_exc # "RuntimeError"
    /\ srv = "running"
       => /\ \A key \in DOMAIN timeout_tasks :
                /\ key[2] \in DOMAIN instances
                /\ key[1] \in instances[key[2]].clients
          /\ \A p \in DOMAIN instances : \A c \in instances[p].clients :
                <<c, p>> \in DOMAIN timeout_tasks
          /\ { tasks[i] : i \in 1..Len(tasks) }
                = { timeout_tasks[key] : key \in DOMAIN timeout_tasks }
          /\ Len(tasks) = Cardinality(DOMAIN timeout_tasks)
          /\ \A i \in 1..Len(tasks) :
                /\ ~tasks[i].called
                /\ timeout_tasks[<<tasks[i].client_id, tasks[i].filepath>>] = tasks[i]

\* Two clients have written at different times and a timeout is pending for
\* each of them.
C27_Witness ==
    /\ srv = "running" /\ Len(tasks) = 2
    /\ tasks[1].due_at # tasks[2].due_at
    /\ tasks[1].client_id # tasks[2].client_id

\* C28: when the running server takes from the data socket a datagram that
\* has not three NUL-separated fields, or whose first field is not an
\* integer, nothing but the socket's queue changes: no handler, client set,
\* descriptor, file, task or session is touched and run() goes on.
C28_MalformedDatagramIgnored ==
    [][ (/\ srv = "running" /\ dataq # <<>>
         /\ srv' # "exited" /\ dataq' = Tail(dataq)
         /\ (Head(dataq).nuls # 2 \/ ~Head(dataq).int_id))
        => UNCHANGED <<runVars, sessionVars, fileVars>> ]_vars

\* Before any client has an id, the run's only datagram, which can only be a
\* malformed one, has been taken from the data socket.
C28_Witness ==
    /\ srv = "running" /\ next_client_id = 0
    /\ ndgrams = 1 /\ dataq = <<>> /\ drained = 0
    /\ DOMAIN instances = {} /\ DOMAIN fs = {} /\ tasks = <<>>

=============================================================================
